---- MODULE Spec2Model ----
(***************************************************************************)
(* SigFig: arithmetic with significant figures (src/SigFig/__init__.py).   *)
(*                                                                         *)
(* Python strings are sequences of one-character strings.  A Python float  *)
(* is a sign-magnitude decimal on a grid of 10^-Scale (kind "fin"), or     *)
(* inf / nan.  Sums, differences, floor quotients and remainders of grid   *)
(* values are exact; products and quotients are rounded to the nearest     *)
(* grid point, as the float operation rounds to the nearest double.        *)
(* Number formatting is correctly rounded, ties to even, as CPython's is.  *)
(* Magnitudes stay below MaxWhole: a result beyond it is not formed, so    *)
(* the overflow of a float operation to inf is outside the model.          *)
(***************************************************************************)
EXTENDS Integers, Sequences, FiniteSets, TLC

(***************************************************************************)
(* Bounds of the model                                                     *)
(***************************************************************************)
Scale == 3
MaxWhole == 2000
RecursionLimit == 3
MaxCalls == 3

(***************************************************************************)
(* Integers                                                                *)
(***************************************************************************)
RECURSIVE Pow10(_)
Pow10(n) == IF n <= 0 THEN 1 ELSE 10 * Pow10(n - 1)

Min2(a, b) == IF b < a THEN b ELSE a

Max2(a, b) == IF b > a THEN b ELSE a

RoundHalfEven(a, b) ==
    LET q == a \div b
        r == a % b
    IN  IF 2 * r < b THEN q
        ELSE IF 2 * r > b THEN q + 1
        ELSE IF q % 2 = 0 THEN q ELSE q + 1

MaxMag == MaxWhole * Pow10(Scale)

\* the largest product the model forms
MaxInt == 2 * Pow10(9)

(***************************************************************************)
(* str methods                                                             *)
(***************************************************************************)
DigitChars == <<"0", "1", "2", "3", "4", "5", "6", "7", "8", "9">>

IsDigit(c) == \E i \in 1..10 : DigitChars[i] = c

DigitVal(c) == (CHOOSE i \in 1..10 : DigitChars[i] = c) - 1

AllDigits(s) == \A i \in 1..Len(s) : IsDigit(s[i])

RECURSIVE NatStr(_)
NatStr(n) == IF n < 10 THEN <<DigitChars[n + 1]>>
             ELSE NatStr(n \div 10) \o <<DigitChars[(n % 10) + 1]>>

RECURSIVE StrNat(_)
StrNat(s) == IF s = <<>> THEN 0
             ELSE StrNat(SubSeq(s, 1, Len(s) - 1)) * 10 + DigitVal(s[Len(s)])

Zeros(n) == [i \in 1..n |-> "0"]

lower(s) == [i \in 1..Len(s) |-> IF s[i] = "E" THEN "e" ELSE s[i]]

Contains(s, c) == \E i \in 1..Len(s) : s[i] = c

replace(s, c) == SelectSeq(s, LAMBDA ch : ch # c)

RECURSIVE rstrip(_, _)
rstrip(s, c) == IF s # <<>> /\ s[Len(s)] = c
                THEN rstrip(SubSeq(s, 1, Len(s) - 1), c) ELSE s

RECURSIVE lstrip(_, _)
lstrip(s, c) == IF s # <<>> /\ s[1] = c THEN lstrip(Tail(s), c) ELSE s

strip(s, c) == rstrip(lstrip(s, c), c)

FirstIndex(s, c) == CHOOSE i \in 1..Len(s) :
                        s[i] = c /\ \A j \in 1..(i - 1) : s[j] # c

RECURSIVE split(_, _)
split(s, c) ==
    IF ~Contains(s, c) THEN <<s>>
    ELSE LET i == FirstIndex(s, c)
         IN  <<SubSeq(s, 1, i - 1)>> \o split(SubSeq(s, i + 1, Len(s)), c)

RECURSIVE join(_, _)
join(c, parts) ==
    IF Len(parts) = 0 THEN <<>>
    ELSE IF Len(parts) = 1 THEN parts[1]
    ELSE parts[1] \o <<c>> \o join(c, Tail(parts))

(***************************************************************************)
(* Python floats                                                           *)
(***************************************************************************)
Fin(neg, m) == [k |-> "fin", neg |-> neg, m |-> m]

PosInf == [k |-> "inf", neg |-> FALSE, m |-> 0]

NegInf == [k |-> "inf", neg |-> TRUE, m |-> 0]

NaN == [k |-> "nan", neg |-> FALSE, m |-> 0]

math_isnan(v) == v.k = "nan"

math_isinf(v) == v.k = "inf"

IsZero(v) == v.k = "fin" /\ v.m = 0

float_neg(v) == IF v.k = "nan" THEN NaN ELSE [v EXCEPT !.neg = ~v.neg]

float_abs(v) == IF v.k = "nan" THEN NaN ELSE [v EXCEPT !.neg = FALSE]

float_lt0(v) == v.k # "nan" /\ v.neg /\ ~IsZero(v)

Ok(s) == [exc |-> "none", s |-> s]

Raise(e) == [exc |-> e, s |-> <<>>]

PadLeft(s, n) == IF Len(s) < n THEN Zeros(n - Len(s)) \o s ELSE s

SignStr(v) == IF v.neg THEN <<"-">> ELSE <<>>

NonFinite(v) == IF v.k = "nan" THEN <<"n", "a", "n">>
                ELSE SignStr(v) \o <<"i", "n", "f">>

\* the digits ds read as an integer, with a point before the last d of them
PointStr(ds, d, alt) ==
    LET p == PadLeft(ds, d + 1)
        n == Len(p)
    IN  SubSeq(p, 1, n - d)
        \o (IF d > 0 \/ alt THEN <<".">> ELSE <<>>)
        \o SubSeq(p, n - d + 1, n)

\* f'{v:.{d}f}'
format_f(v, d) ==
    IF d < 0 THEN Raise("ValueError")
    ELSE IF v.k # "fin" THEN Ok(NonFinite(v))
    ELSE LET ds == IF d >= Scale THEN NatStr(v.m) \o Zeros(d - Scale)
                   ELSE NatStr(RoundHalfEven(v.m, Pow10(Scale - d)))
         IN  Ok(SignStr(v) \o PointStr(ds, d, FALSE))

\* v rounded to P significant digits: the P digits and the decimal exponent
SigDigits(v, P) ==
    IF v.m = 0 THEN [ds |-> Zeros(P), X |-> 0]
    ELSE LET nd == Len(NatStr(v.m))
         IN  IF nd > P
             THEN LET q == RoundHalfEven(v.m, Pow10(nd - P))
                  IN  IF q = Pow10(P)
                      THEN [ds |-> NatStr(Pow10(P - 1)), X |-> nd - Scale]
                      ELSE [ds |-> NatStr(q), X |-> nd - 1 - Scale]
             ELSE [ds |-> NatStr(v.m) \o Zeros(P - nd), X |-> nd - 1 - Scale]

ExpStr(X) == <<"e">> \o (IF X < 0 THEN <<"-">> ELSE <<"+">>)
             \o PadLeft(NatStr(IF X < 0 THEN -X ELSE X), 2)

SciStr(sd) == <<sd.ds[1]>> \o <<".">> \o Tail(sd.ds) \o ExpStr(sd.X)

INF == 1000000

\* the P significant digits sd laid out in fixed or scientific notation
format_g_digits(v, P, sd) ==
    IF -4 <= sd.X /\ sd.X < P
    THEN Ok(SignStr(v) \o PointStr(sd.ds, P - 1 - sd.X, TRUE))
    ELSE Ok(SignStr(v) \o SciStr(sd))

\* f'{v:#.{p}g}' of a finite v with precision P >= 1
format_g_finite(v, P) == format_g_digits(v, P, SigDigits(v, P))

\* f'{v:#.{p}g}'
format_g(v, p) ==
    IF p = INF \/ p < 0 THEN Raise("ValueError")
    ELSE IF v.k # "fin" THEN Ok(NonFinite(v))
    ELSE format_g_finite(v, IF p = 0 THEN 1 ELSE p)

\* f'{v:.8e}'
format_e8(v) ==
    IF v.k # "fin" THEN NonFinite(v)
    ELSE SignStr(v) \o SciStr(SigDigits(v, 9))

\* str(v) and f"{v}" of a float
float_str(v) ==
    IF v.k # "fin" THEN NonFinite(v)
    ELSE LET p == PadLeft(NatStr(v.m), Scale + 1)
             n == Len(p)
             fr == rstrip(SubSeq(p, n - Scale + 1, n), "0")
         IN  SignStr(v) \o SubSeq(p, 1, n - Scale) \o <<".">>
             \o (IF fr = <<>> THEN <<"0">> ELSE fr)

Unsigned(s) == IF s # <<>> /\ s[1] \in {"+", "-"} THEN Tail(s) ELSE s

\* int(s) of a decimal integer literal
ParseInt(s) ==
    LET u == Unsigned(s)
    IN  IF u = <<>> \/ ~AllDigits(u) THEN [exc |-> "ValueError", n |-> 0]
        ELSE [exc |-> "none",
              n |-> IF s[1] = "-" THEN -StrNat(u) ELSE StrNat(u)]

FOk(v) == [exc |-> "none", v |-> v]

FRaise(e) == [exc |-> e, v |-> NaN]

\* the float N * 10^(sh - Scale), on the grid
float_scaled(neg, N, sh) ==
    FOk(Fin(neg, IF sh >= 0 THEN N * Pow10(sh)
                 ELSE RoundHalfEven(N, Pow10(-sh))))

\* float(s) from the integer part, the fraction and the exponent of s
float_digits(neg, ip, fp, ex) ==
    IF ~AllDigits(ip) \/ ~AllDigits(fp) \/ ip \o fp = <<>> \/ ex.exc # "none"
    THEN FRaise("ValueError")
    ELSE float_scaled(neg, StrNat(ip \o fp), ex.n - Len(fp) + Scale)

\* float(s) from s split at 'e' and its mantissa split at '.'
float_parts(neg, parts, mant) ==
    IF Len(parts) > 2 \/ Len(mant) > 2 THEN FRaise("ValueError")
    ELSE float_digits(neg, mant[1],
                      IF Len(mant) = 2 THEN mant[2] ELSE <<>>,
                      IF Len(parts) = 2 THEN ParseInt(parts[2])
                      ELSE [exc |-> "none", n |-> 0])

float_mantissa(neg, parts) == float_parts(neg, parts, split(parts[1], "."))

\* float(s) for the sign neg and the rest u of s, in lower case
float_unsigned(neg, u) ==
    IF u = <<"i", "n", "f">> THEN FOk(IF neg THEN NegInf ELSE PosInf)
    ELSE IF u = <<"n", "a", "n">> THEN FOk(NaN)
    ELSE float_mantissa(neg, split(u, "e"))

\* float(s)
ParseFloat(s) == float_unsigned(s # <<>> /\ s[1] = "-", lower(Unsigned(s)))

IntStr(n) == IF n < 0 THEN <<"-">> \o NatStr(-n) ELSE NatStr(n)

SInt(v) == IF v.neg THEN -v.m ELSE v.m

FloorDiv(a, b) == IF b < 0 THEN (-a) \div (-b) ELSE a \div b

\* round(v, nd) for nd <= 0
py_round(v, nd) ==
    IF v.k # "fin" THEN v
    ELSE LET u == Pow10(Scale - nd)
         IN  Fin(v.neg, RoundHalfEven(v.m, u) * u)

float_add(a, b) ==
    IF a.k = "nan" \/ b.k = "nan" THEN NaN
    ELSE IF a.k = "inf" THEN (IF b.k = "inf" /\ b.neg # a.neg THEN NaN ELSE a)
    ELSE IF b.k = "inf" THEN b
    ELSE LET t == SInt(a) + SInt(b)
         IN  IF t = 0 THEN Fin(a.neg /\ b.neg, 0)
             ELSE Fin(t < 0, IF t < 0 THEN -t ELSE t)

float_sub(a, b) == float_add(a, float_neg(b))

float_mul(a, b) ==
    IF a.k = "nan" \/ b.k = "nan" THEN NaN
    ELSE IF a.k = "inf" \/ b.k = "inf"
    THEN (IF IsZero(a) \/ IsZero(b) THEN NaN
          ELSE [k |-> "inf", neg |-> (a.neg # b.neg), m |-> 0])
    ELSE Fin(a.neg # b.neg, RoundHalfEven(a.m * b.m, Pow10(Scale)))

float_truediv(a, b) ==
    IF IsZero(b) THEN FRaise("ZeroDivisionError")
    ELSE IF a.k = "nan" \/ b.k = "nan" THEN FOk(NaN)
    ELSE IF a.k = "inf"
    THEN (IF b.k = "inf" THEN FOk(NaN)
          ELSE FOk([k |-> "inf", neg |-> (a.neg # b.neg), m |-> 0]))
    ELSE IF b.k = "inf" THEN FOk(Fin(a.neg # b.neg, 0))
    ELSE FOk(Fin(a.neg # b.neg, RoundHalfEven(a.m * Pow10(Scale), b.m)))

float_floordiv(a, b) ==
    IF IsZero(b) THEN FRaise("ZeroDivisionError")
    ELSE IF a.k # "fin" \/ b.k = "nan" THEN FOk(NaN)
    ELSE IF b.k = "inf"
    THEN (IF a.m # 0 /\ a.neg # b.neg THEN FOk(Fin(TRUE, Pow10(Scale)))
          ELSE FOk(Fin(a.neg # b.neg, 0)))
    ELSE LET q == FloorDiv(SInt(a), SInt(b))
         IN  IF q = 0 THEN FOk(Fin(a.neg # b.neg, 0))
             ELSE FOk(Fin(q < 0, (IF q < 0 THEN -q ELSE q) * Pow10(Scale)))

float_mod(a, b) ==
    IF IsZero(b) THEN FRaise("ZeroDivisionError")
    ELSE IF a.k # "fin" \/ b.k = "nan" THEN FOk(NaN)
    ELSE IF b.k = "inf"
    THEN (IF a.m = 0 THEN FOk(Fin(b.neg, 0))
          ELSE IF a.neg = b.neg THEN FOk(a) ELSE FOk(b))
    ELSE LET r == SInt(a) - SInt(b) * FloorDiv(SInt(a), SInt(b))
         IN  FOk(Fin(b.neg, IF r < 0 THEN -r ELSE r))

RECURSIVE float_pow(_, _)
float_pow(a, p) ==
    IF p = 0 THEN Fin(FALSE, Pow10(Scale))
    ELSE IF p = 1 THEN a
    ELSE float_mul(float_pow(a, p - 1), a)

(***************************************************************************)
(* StrictInt and find_sigfigs_lsf                                          *)
(***************************************************************************)
\* StrictInt(value) of a float: the integer, or ValueError
StrictInt(v) ==
    IF v.k # "fin" \/ v.m % Pow10(Scale) # 0
    THEN [exc |-> "ValueError", n |-> 0]
    ELSE [exc |-> "none", n |-> SInt(v) \div Pow10(Scale)]

SfOk(sf, lsf) == [exc |-> "none", sf |-> sf, lsf |-> lsf]

SfRaise(e) == [exc |-> e, sf |-> 0, lsf |-> 0]

\* sf and lsf from the mantissa, its split at '.', and int(exponent)
find_sigfigs_lsf_parts(mantissa, parts, ex) ==
    IF Len(parts) < 2 THEN SfRaise("IndexError")
    ELSE IF ex.exc # "none" THEN SfRaise("ValueError")
    ELSE IF Len(parts[2]) > 0
    THEN SfOk(Len(mantissa) - 1, -Len(parts[2]) + ex.n)
    ELSE SfOk(Len(mantissa) - 1, ex.n)

find_sigfigs_lsf_mantissa(mantissa, exponent) ==
    find_sigfigs_lsf_parts(mantissa, split(mantissa, "."), ParseInt(exponent))

\* the branch of find_sigfigs_lsf for a string with an 'e' in it
find_sigfigs_lsf_e(string_figure) ==
    find_sigfigs_lsf_mantissa(replace(string_figure[1], "-"), string_figure[2])

\* the branch of find_sigfigs_lsf for a string whose float is 0
find_sigfigs_lsf_zero(x, parts) ==
    IF Len(parts) < 2 THEN SfRaise("IndexError")
    ELSE SfOk(Len(replace(strip(x, "-"), ".")), -Len(parts[2]))

RECURSIVE find_sigfigs_lsf_at(_, _)

\* the branch for a nonzero float: n is its '.8e' form split at 'e', s is x
\* without its point; the rewritten string is parsed again
find_sigfigs_lsf_again(x, n, s, depth) ==
    find_sigfigs_lsf_at(
        join("e", <<rstrip(n[1], "0")
                    \o (IF Contains(x, ".")
                        THEN Zeros(Len(s) - Len(rstrip(s, "0"))) ELSE <<>>)>>
                  \o Tail(n)),
        depth + 1)

\* the branch of find_sigfigs_lsf for a string without an 'e'
find_sigfigs_lsf_float(x, f, depth) ==
    IF f.exc # "none" THEN SfRaise(f.exc)
    ELSE IF IsZero(f.v) THEN find_sigfigs_lsf_zero(x, split(x, "."))
    ELSE find_sigfigs_lsf_again(x, split(format_e8(f.v), "e"),
                                replace(x, "."), depth)

find_sigfigs_lsf_lower(x, depth) ==
    IF Contains(x, "e") THEN find_sigfigs_lsf_e(split(x, "e"))
    ELSE find_sigfigs_lsf_float(x, ParseFloat(x), depth)

\* find_sigfigs_lsf(x0) at recursion depth depth
find_sigfigs_lsf_at(x0, depth) ==
    IF depth > RecursionLimit THEN SfRaise("RecursionError")
    ELSE find_sigfigs_lsf_lower(lower(x0), depth)

find_sigfigs_lsf(x) == find_sigfigs_lsf_at(x, 0)

(***************************************************************************)
(* class SigFig                                                            *)
(***************************************************************************)
NONE == -1

LsfInt(n) == [t |-> "int", v |-> n]

LsfN == [t |-> "n", v |-> 0]

LsfUnset == [t |-> "unset", v |-> 0]

LsfNone == [t |-> "none", v |-> 0]

\* a constructed instance; exc names the exception raised instead
Obj(value, sf, lsf) == [exc |-> "none", value |-> value, sf |-> sf, lsf |-> lsf]

Exc(e) == [exc |-> e, value |-> NaN, sf |-> 0, lsf |-> LsfUnset]

\* truth value of the exponent argument
Truthy(exponent) == exponent.t = "n" \/ (exponent.t = "int" /\ exponent.v # 0)

\* the string branch of SigFig.__init__, with float(value) and
\* find_sigfigs_lsf(value) at hand
SigFig_parsed(f, sf, r) ==
    IF f.exc # "none" THEN Exc(f.exc)
    ELSE IF IsZero(f.v)
    THEN (IF r.exc # "none" THEN Exc(r.exc)
          ELSE Obj(f.v, 0, LsfInt(r.lsf)))
    ELSE IF sf = INF THEN Obj(f.v, INF, LsfUnset)
    ELSE IF r.exc # "none" THEN Exc(r.exc)
    ELSE Obj(f.v, r.sf, LsfInt(r.lsf))

\* SigFig(value, sf) for a string value
SigFig_str(value, sf) ==
    SigFig_parsed(ParseFloat(value), sf, find_sigfigs_lsf(value))

\* self.lsf = find_sigfigs_lsf(...)[1]
SigFig_lsf(value, sf, r) ==
    IF r.exc # "none" THEN Exc(r.exc)
    ELSE Obj(value, sf, LsfInt(r.lsf))

\* the numeric branch of SigFig.__init__ with f'{value:#.{sf}g}' at hand
SigFig_formatted(value, sf, g) ==
    IF g.exc # "none" THEN Exc(g.exc)
    ELSE SigFig_lsf(value, sf, find_sigfigs_lsf(g.s))

\* SigFig(value, sf, exponent) for a float or int value
SigFig_num(value, sf, exponent) ==
    IF math_isnan(value) THEN Obj(NaN, INF, LsfN)
    ELSE IF math_isinf(value) THEN Obj(PosInf, INF, LsfN)
    ELSE IF sf # NONE
    THEN (IF Truthy(exponent) THEN Obj(value, sf, exponent)
          ELSE SigFig_formatted(value, sf, format_g(value, sf)))
    ELSE Exc("ValueError")

\* SigFig.__str__
SigFig_to_str(self) ==
    IF self.sf = INF THEN Ok(float_str(self.value))
    ELSE IF self.sf = 0
    THEN (IF self.lsf.t = "unset" THEN Raise("AttributeError")
          ELSE IF self.lsf.t # "int" THEN Raise("TypeError")
          ELSE format_f(float_abs(self.value), -self.lsf.v))
    ELSE format_g(self.value, self.sf)

\* min(self.lsf, other.lsf) and max(self.lsf, other.lsf)
LsfPick(a, b, takeB) ==
    IF a.t = "unset" \/ b.t = "unset" THEN [exc |-> "AttributeError", lsf |-> a]
    ELSE IF a.t # b.t THEN [exc |-> "TypeError", lsf |-> a]
    ELSE IF a.t = "int" /\ takeB THEN [exc |-> "none", lsf |-> b]
    ELSE [exc |-> "none", lsf |-> a]

lsf_min(a, b) == LsfPick(a, b, a.t = "int" /\ b.t = "int" /\ b.v < a.v)

lsf_max(a, b) == LsfPick(a, b, a.t = "int" /\ b.t = "int" /\ b.v > a.v)

\* SigFig(result, sig_fig, min(self.lsf, other.lsf)) when sig_fig is 0,
\* else SigFig(result, sig_fig)
SigFig_min(result, sig_fig, lm) ==
    IF result.exc # "none" THEN Exc(result.exc)
    ELSE IF sig_fig = 0 /\ lm.exc # "none" THEN Exc(lm.exc)
    ELSE SigFig_num(result.v, sig_fig, IF sig_fig = 0 THEN lm.lsf ELSE LsfNone)

\* a faulty tail that keeps the sig figs of self, which the min rule must
\* tell from MinRule
MinRule_keeps_self(self, other, result) ==
    SigFig_min(result, self.sf, lsf_min(self.lsf, other.lsf))

\* the shared tail of __truediv__, __floordiv__ and __mul__ on two SigFigs
MinRule(self, other, result) ==
    SigFig_min(result, Min2(self.sf, other.sf), lsf_min(self.lsf, other.lsf))

\* the second operand of a binary operator: a SigFig, a float or int, or
\* a value of another type
OtherSigFig(o) == [t |-> "SigFig", o |-> o, v |-> NaN]

OtherNum(v) == [t |-> "num", o |-> Exc("none"), v |-> v]

OtherStr == [t |-> "str", o |-> Exc("none"), v |-> NaN]

\* SigFig(result, sig_fig) for the result of a float operation
SigFig_of(result, sig_fig) ==
    IF result.exc # "none" THEN Exc(result.exc)
    ELSE SigFig_num(result.v, sig_fig, LsfNone)

\* the float/int branch of the binary operators: SigFig(result, self.sf)
WithNumber(self, result) == SigFig_of(result, self.sf)

\* SigFig.__truediv__
SigFig_truediv(self, other) ==
    IF other.t = "SigFig"
    THEN MinRule(self, other.o, float_truediv(self.value, other.o.value))
    ELSE IF other.t = "num"
    THEN WithNumber(self, float_truediv(self.value, other.v))
    ELSE Exc("TypeError")

\* SigFig.__rtruediv__, reached when the left operand is a float or int
SigFig_rtruediv(self, other) ==
    IF other.t = "SigFig"
    THEN MinRule(self, other.o, float_truediv(other.o.value, self.value))
    ELSE IF other.t = "num"
    THEN WithNumber(self, float_truediv(other.v, self.value))
    ELSE Exc("TypeError")

\* SigFig.__floordiv__
SigFig_floordiv(self, other) ==
    IF other.t = "SigFig"
    THEN MinRule(self, other.o, float_floordiv(self.value, other.o.value))
    ELSE IF other.t = "num"
    THEN WithNumber(self, float_floordiv(self.value, other.v))
    ELSE Exc("TypeError")

\* SigFig.__mod__
SigFig_mod(self, other) ==
    IF other.t = "str" THEN Exc("TypeError")
    ELSE SigFig_of(float_mod(self.value,
                             IF other.t = "SigFig" THEN other.o.value
                             ELSE other.v),
                   IF other.t = "SigFig" THEN Min2(self.sf, other.o.sf)
                   ELSE self.sf)

\* SigFig.__mul__
SigFig_mul(self, other) ==
    IF other.t = "SigFig"
    THEN MinRule(self, other.o, FOk(float_mul(self.value, other.o.value)))
    ELSE IF other.t = "num"
    THEN WithNumber(self, FOk(float_mul(self.value, other.v)))
    ELSE Exc("TypeError")

\* SigFig.__rmul__
SigFig_rmul(self, other) == SigFig_mul(self, other)

\* SigFig(result, r[0]) for r = find_sigfigs_lsf(...)
SigFig_found(result, r) ==
    IF r.exc # "none" THEN Exc(r.exc)
    ELSE SigFig_num(result, r.sf, LsfNone)

\* SigFig(result, find_sigfigs_lsf(x)[0])
FromParsed(result, x) == SigFig_found(result, find_sigfigs_lsf(x))

\* SigFig(result, find_sigfigs_lsf(str(strict_rounded))[0])
FromStrict(result, strict_rounded) ==
    IF strict_rounded.exc # "none" THEN Exc(strict_rounded.exc)
    ELSE FromParsed(result, IntStr(strict_rounded.n))

\* the try block of __add__ and __sub__ without its handlers
TryStrict(result, rounded) == FromStrict(result, StrictInt(rounded))

\* the handler of RecursionError in __add__
AddRecursion(second) ==
    IF second.exc # "RecursionError" THEN second
    ELSE SigFig_num(NaN, INF, LsfNone)

\* the handler of ValueError in __add__
AddValueError(result, rounded, first) ==
    IF first.exc # "ValueError" THEN first
    ELSE AddRecursion(FromParsed(result, float_str(rounded)))

\* __add__ on two SigFigs with the precision max(self.lsf, other.lsf)
AddRounded(result, precision) ==
    IF precision < 0
    THEN FromParsed(result, format_f(result, -precision).s)
    ELSE AddValueError(result, py_round(result, -precision),
                       TryStrict(result, py_round(result, -precision)))

\* the test self.lsf == 'n' or other.lsf == 'n'
IsSpecial(self, other) ==
    IF self.lsf.t = "unset" THEN [exc |-> "AttributeError", b |-> FALSE]
    ELSE IF self.lsf.t = "n" THEN [exc |-> "none", b |-> TRUE]
    ELSE IF other.lsf.t = "unset" THEN [exc |-> "AttributeError", b |-> FALSE]
    ELSE [exc |-> "none", b |-> other.lsf.t = "n"]

\* the SigFig branch of __add__ once result and the special case are known
AddResult(self, other, result, special) ==
    IF special.exc # "none" THEN Exc(special.exc)
    ELSE IF special.b THEN SigFig_num(result, NONE, LsfNone)
    ELSE AddRounded(result, lsf_max(self.lsf, other.lsf).lsf.v)

\* the SigFig branch of SigFig.__add__
AddSigFig(self, other) ==
    AddResult(self, other, float_add(self.value, other.value),
              IsSpecial(self, other))

\* SigFig.__add__
SigFig_add(self, other) ==
    IF other.t = "SigFig" THEN AddSigFig(self, other.o)
    ELSE IF other.t = "num"
    THEN WithNumber(self, FOk(float_add(self.value, other.v)))
    ELSE Exc("TypeError")

\* every character of the formatted number is a digit, and all are zero
AllZero(digits) == \A i \in 1..Len(digits) : digits[i] = "0"

\* the handler of ValueError in __sub__, which calls the undefined
\* find_sigfigs
SubValueError(first) ==
    IF first.exc # "ValueError" THEN first ELSE Exc("NameError")

\* a faulty branch without the all-zero test (what __add__ does), which
\* the zero-cancellation rule must tell from SubChecked
SubChecked_as_add(result, rounded, check0) == FromParsed(result, rounded)

\* the branch of __sub__ for precision < 0: rounded is the formatted
\* difference, check0 its characters without point and sign
SubChecked(result, rounded, check0) ==
    IF ~AllDigits(check0) THEN Exc("ValueError")
    ELSE IF ~AllZero(check0) THEN FromParsed(result, rounded)
    ELSE SigFig_num(result, 0, LsfInt(-Len(split(rounded, ".")[2])))

SubFormatted(result, rounded) ==
    SubChecked(result, rounded, replace(replace(rounded, "."), "-"))

\* __sub__ on two SigFigs with the precision max(self.lsf, other.lsf)
SubRounded(result, precision) ==
    IF precision < 0
    THEN SubFormatted(result, format_f(result, -precision).s)
    ELSE SubValueError(TryStrict(result, py_round(result, -precision)))

\* the SigFig branch of __sub__ once result and the special case are known
SubResult(self, other, result, special) ==
    IF special.exc # "none" THEN Exc(special.exc)
    ELSE IF special.b THEN SigFig_num(result, NONE, LsfNone)
    ELSE SubRounded(result, lsf_max(self.lsf, other.lsf).lsf.v)

\* the SigFig branch of SigFig.__sub__
SubSigFig(self, other) ==
    SubResult(self, other, float_sub(self.value, other.value),
              IsSpecial(self, other))

\* SigFig.__sub__
SigFig_sub(self, other) ==
    IF other.t = "SigFig" THEN SubSigFig(self, other.o)
    ELSE IF other.t = "num"
    THEN WithNumber(self, FOk(float_sub(self.value, other.v)))
    ELSE Exc("TypeError")

\* SigFig.__pow__
SigFig_pow(self, power) ==
    SigFig_num(float_pow(self.value, power), self.sf, LsfNone)

\* SigFig.__neg__
SigFig_neg(self) == SigFig_num(float_neg(self.value), self.sf, LsfNone)

\* the branch of SigFig.__abs__ taken for a negative value
SigFig_abs_neg(self) ==
    LET copy == SigFig_num(self.value, self.sf, LsfNone)
    IN  IF copy.exc # "none" THEN copy ELSE SigFig_neg(copy)

BOk(b) == [exc |-> "none", b |-> b]

BRaise(e) == [exc |-> e, b |-> FALSE]

\* str(self) == str(other), or the exception either str raises
StrSame(self, other, same) ==
    LET s1 == SigFig_to_str(self)
        s2 == SigFig_to_str(other)
    IN  IF s1.exc # "none" THEN BRaise(s1.exc)
        ELSE IF s2.exc # "none" THEN BRaise(s2.exc)
        ELSE BOk((s1.s = s2.s) = same)

\* a faulty __eq__ that only compares the strings, which the equality
\* rule must tell from SigFig_eq
SigFig_eq_strings(self, other) == StrSame(self, other, TRUE)

\* SigFig.__eq__
SigFig_eq(self, other) ==
    IF IsZero(self.value) /\ IsZero(other.value) THEN BOk(TRUE)
    ELSE IF math_isnan(self.value) \/ math_isnan(other.value) THEN BOk(FALSE)
    ELSE StrSame(self, other, TRUE)

\* SigFig.__ne__
SigFig_ne(self, other) == StrSame(self, other, FALSE)

(***************************************************************************)
(* The program: a caller that constructs SigFigs and applies operators     *)
(***************************************************************************)
\* the string literals the caller constructs from
Literals == <<
    <<"0">>,
    <<"0", ".", "0">>,
    <<"0", ".", "0", "0">>,
    <<"-", "0", ".", "0">>,
    <<"5">>,
    <<"5", ".", "0">>,
    <<"0", ".", "5", "e", "1">>,
    <<"9", ".", "9">>,
    <<"9", ".", "9", "4">>,
    <<"0", ".", "0", "6">> >>

\* the (value, sf) pairs the caller constructs from
Numbers == <<
    <<PosInf, NONE>>,
    <<NaN, NONE>>,
    <<Fin(FALSE, 5 * Pow10(Scale)), 2>>,
    <<Fin(FALSE, 5 * Pow10(Scale)), NONE>> >>

\* the float the caller passes as the other operand
RawNumbers == { Fin(FALSE, 2 * Pow10(Scale)) }

Powers == { 0, 2 }

SfValues == { 4 }

VARIABLES heap, last, nops

vars == <<heap, last, nops>>

Ids == 1..Len(heap)

NoCall == [op |-> "none", self |-> 0, other |-> 0, input |-> 0, lit |-> <<>>,
           before |-> 0, res |-> 0, exc |-> "none", flag |-> FALSE]

Call(op, self, other) == [NoCall EXCEPT !.op = op, !.self = self,
                                        !.other = other, !.before = Len(heap)]

\* the values the model keeps are on the grid and inside MaxMag
InBounds(r) == IF r.exc = "none" /\ r.value.k = "fin"
               THEN r.value.m <= MaxMag ELSE TRUE

\* the product neither overflows the model's integers nor underflows the grid
MulFits(a, b) ==
    IF a.k = "fin" /\ b.k = "fin" /\ a.m # 0 /\ b.m # 0
    THEN b.m <= MaxInt \div (2 * a.m) /\ 2 * a.m * b.m >= Pow10(Scale)
    ELSE TRUE

\* the quotient neither overflows the model's integers nor underflows the grid
DivFits(a, b) ==
    IF a.k = "fin" /\ b.k = "fin" /\ a.m # 0 /\ b.m # 0
    THEN a.m <= MaxInt \div (2 * Pow10(Scale))
         /\ 2 * a.m * Pow10(Scale) >= b.m
    ELSE TRUE

\* the call returns r (a new instance) or raises r.exc; an exception
\* propagates to the caller and ends the run
Return(call, r) ==
    /\ InBounds(r)
    /\ IF r.exc = "none"
       THEN /\ heap' = Append(heap, r)
            /\ last' = [call EXCEPT !.res = Len(heap) + 1]
       ELSE /\ heap' = heap
            /\ last' = [call EXCEPT !.exc = r.exc]

Running == last.exc = "none"

CanCall == Running /\ nops < MaxCalls

\* every operator call takes the instance the previous call returned
\* (a call on older instances alone is the first call of a shorter run)
Takes(i, j) == last.res \in {i, j}

\* the caller constructs its operands first, in the order of their inputs
\* (the operators then take them in either order)
CanConstruct(k) ==
    /\ CanCall
    /\ last.op \in {"none", "init_str", "init_num"}
    /\ last.input <= k

\* SigFig(Literals[k])
New_str(k) ==
    /\ CanConstruct(k)
    /\ Return([Call("init_str", 0, 0) EXCEPT !.input = k, !.lit = Literals[k]],
              SigFig_str(Literals[k], NONE))
    /\ nops' = nops + 1

\* SigFig(value, sf) for the pair Numbers[k]
New_num(k) ==
    /\ CanConstruct(Len(Literals) + k)
    /\ Return([Call("init_num", 0, 0) EXCEPT !.input = Len(Literals) + k],
              SigFig_num(Numbers[k][1], Numbers[k][2], LsfNone))
    /\ nops' = nops + 1

\* the other operand of a call: the SigFig j, a float, or a str
Others == [t : {"SigFig"}, j : Ids, v : {NaN}]
          \cup [t : {"num"}, j : {0}, v : RawNumbers]
          \cup [t : {"str"}, j : {0}, v : {NaN}]

Operand(o) == IF o.t = "SigFig" THEN OtherSigFig(heap[o.j])
              ELSE IF o.t = "num" THEN OtherNum(o.v)
              ELSE OtherStr

OperandValue(o) == IF o.t = "SigFig" THEN heap[o.j].value ELSE o.v

\* heap[i] / o
Truediv(i, o) ==
    /\ CanCall
    /\ Takes(i, o.j)
    /\ DivFits(heap[i].value, OperandValue(o))
    /\ Return(Call("truediv", i, o.j), SigFig_truediv(heap[i], Operand(o)))
    /\ nops' = nops + 1

\* o / heap[i] for a float o
Rtruediv(i, o) ==
    /\ CanCall
    /\ Takes(i, i)
    /\ o.t = "num"
    /\ DivFits(o.v, heap[i].value)
    /\ Return(Call("rtruediv", i, 0), SigFig_rtruediv(heap[i], Operand(o)))
    /\ nops' = nops + 1

\* heap[i] // o
Floordiv(i, o) ==
    /\ CanCall
    /\ Takes(i, o.j)
    /\ Return(Call("floordiv", i, o.j), SigFig_floordiv(heap[i], Operand(o)))
    /\ nops' = nops + 1

\* heap[i] % o
Mod(i, o) ==
    /\ CanCall
    /\ Takes(i, o.j)
    /\ Return(Call("mod", i, o.j), SigFig_mod(heap[i], Operand(o)))
    /\ nops' = nops + 1

\* heap[i] * o
Mul(i, o) ==
    /\ CanCall
    /\ Takes(i, o.j)
    /\ MulFits(heap[i].value, OperandValue(o))
    /\ Return(Call("mul", i, o.j), SigFig_mul(heap[i], Operand(o)))
    /\ nops' = nops + 1

\* o * heap[i] for a float o
Rmul(i, o) ==
    /\ CanCall
    /\ Takes(i, i)
    /\ o.t = "num"
    /\ MulFits(heap[i].value, o.v)
    /\ Return(Call("rmul", i, 0), SigFig_rmul(heap[i], Operand(o)))
    /\ nops' = nops + 1

\* heap[i] + o
Add(i, o) ==
    /\ CanCall
    /\ Takes(i, o.j)
    /\ Return(Call("add", i, o.j), SigFig_add(heap[i], Operand(o)))
    /\ nops' = nops + 1

\* heap[i] - o
Sub(i, o) ==
    /\ CanCall
    /\ Takes(i, o.j)
    /\ Return(Call("sub", i, o.j), SigFig_sub(heap[i], Operand(o)))
    /\ nops' = nops + 1

\* heap[i] ** power
Pow(i, power) ==
    /\ CanCall
    /\ Takes(i, i)
    /\ IF power < 2 THEN TRUE ELSE MulFits(heap[i].value, heap[i].value)
    /\ Return(Call("pow", i, 0), SigFig_pow(heap[i], power))
    /\ nops' = nops + 1

\* -heap[i]
Neg(i) ==
    /\ CanCall
    /\ Takes(i, i)
    /\ Return(Call("neg", i, 0), SigFig_neg(heap[i]))
    /\ nops' = nops + 1

\* abs(heap[i]): a new instance for a negative value, else self
Abs(i) ==
    /\ CanCall
    /\ Takes(i, i)
    /\ IF float_lt0(heap[i].value)
       THEN Return(Call("abs", i, 0), SigFig_abs_neg(heap[i]))
       ELSE /\ heap' = heap
            /\ last' = [Call("abs", i, 0) EXCEPT !.res = i]
    /\ nops' = nops + 1

\* a comparison returns b.b or raises b.exc
Compare(call, b) ==
    /\ heap' = heap
    /\ last' = [call EXCEPT !.exc = b.exc, !.flag = b.b]
    /\ nops' = nops + 1

\* heap[i] == heap[j]
Eq(i, j) ==
    /\ CanCall
    /\ Takes(i, j)
    /\ Compare(Call("eq", i, j), SigFig_eq(heap[i], heap[j]))

\* heap[i] != heap[j]
Ne(i, j) ==
    /\ CanCall
    /\ Takes(i, j)
    /\ Compare(Call("ne", i, j), SigFig_ne(heap[i], heap[j]))

\* heap[i].set_sf(value)
SetSf(i, value) ==
    /\ CanCall
    /\ Takes(i, i)
    /\ heap' = [heap EXCEPT ![i].sf = value]
    /\ last' = Call("set_sf", i, 0)
    /\ nops' = nops + 1

Init ==
    /\ heap = <<>>
    /\ last = NoCall
    /\ nops = 0

Next ==
    \/ \E k \in 1..Len(Literals) : New_str(k)
    \/ \E k \in 1..Len(Numbers) : New_num(k)
    \/ \E i \in Ids, o \in Others : Truediv(i, o)
    \/ \E i \in Ids, o \in Others : Rtruediv(i, o)
    \/ \E i \in Ids, o \in Others : Floordiv(i, o)
    \/ \E i \in Ids, o \in Others : Mod(i, o)
    \/ \E i \in Ids, o \in Others : Mul(i, o)
    \/ \E i \in Ids, o \in Others : Rmul(i, o)
    \/ \E i \in Ids, o \in Others : Add(i, o)
    \/ \E i \in Ids, o \in Others : Sub(i, o)
    \/ \E i \in Ids, power \in Powers : Pow(i, power)
    \/ \E i \in Ids : Neg(i)
    \/ \E i \in Ids : Abs(i)
    \/ \E i \in Ids, j \in Ids : Eq(i, j)
    \/ \E i \in Ids, j \in Ids : Ne(i, j)

Spec == Init /\ [][Next]_vars

\* the same caller, which may also override sig figs with set_sf
NextSf == Next \/ \E i \in Ids, value \in SfValues : SetSf(i, value)

SpecSf == Init /\ [][NextSf]_vars

(***************************************************************************)
(* Properties of the last call                                             *)
(***************************************************************************)
Arithmetic == {"truediv", "rtruediv", "floordiv", "mod", "mul", "rmul",
               "add", "sub", "pow", "neg", "abs"}

\* the last call returned an instance
Returned == last.exc = "none" /\ last.res # 0

\* the last call was one of ops on two SigFigs
OnSigFigs(ops) == last.op \in ops /\ last.other # 0

Self == heap[last.self]

Other == heap[last.other]

Result == heap[last.res]

BothLsfInt == Self.lsf.t = "int" /\ Other.lsf.t = "int"

Precision == Max2(Self.lsf.v, Other.lsf.v)

C2_MaxLsf ==
    (OnSigFigs({"add"}) /\ BothLsfInt /\ Returned)
    => Result.lsf = LsfInt(Precision)

\* str(v) succeeds and SigFig(str(v)) has the sf and lsf of v
RoundTrips(v, s) ==
    /\ s.exc = "none"
    /\ SigFig_str(s.s, NONE).exc = "none"
    /\ SigFig_str(s.s, NONE).sf = v.sf
    /\ SigFig_str(s.s, NONE).lsf = v.lsf

\* C3: every SigFig with finite sig figs, constructed or returned by an
\* operator, renders to a string from which SigFig constructs the same
\* (sf, lsf).
C3_RoundTrip ==
    \A i \in Ids :
        heap[i].sf # INF => RoundTrips(heap[i], SigFig_to_str(heap[i]))

\* a - b formatted to -precision fractional digits
Formatted == format_f(float_sub(Self.value, Other.value), -Precision).s

\* C4: a-b of two SigFigs with integer lsf and precision < 0 returns; if
\* every digit of the formatted difference is zero the result has sf 0 and
\* lsf = precision and renders as zero with -precision decimals, otherwise
\* its sf is the count find_sigfigs_lsf derives from the formatted string.
C4_ZeroCancellation ==
    (OnSigFigs({"sub"}) /\ BothLsfInt /\ Precision < 0)
    => /\ Returned
       /\ IF AllZero(replace(replace(Formatted, "."), "-"))
          THEN /\ Result.sf = 0
               /\ Result.lsf = LsfInt(Precision)
               /\ SigFig_to_str(Result)
                      = Ok(<<"0", ".">> \o Zeros(-Precision))
          ELSE Result.sf = find_sigfigs_lsf(Formatted).sf

\* a nonzero difference cancelled to sf 0
C4_Witness ==
    /\ OnSigFigs({"sub"}) /\ BothLsfInt /\ Precision < 0 /\ Returned
    /\ ~IsZero(Result.value)
    /\ Result.sf = 0

OneSpecial == (Self.value.k = "fin") # (Other.value.k = "fin")

\* the last call divides by a zero value
ZeroDivisor ==
    last.op \in {"truediv", "floordiv", "mod"} /\ IsZero(Other.value)

\* C6: +, -, *, /, //, % of a finite SigFig and an inf or nan SigFig, in
\* either order and with a nonzero divisor, returns a SigFig with sf inf,
\* except finite / inf.
C6_Absorption ==
    (OnSigFigs({"add", "sub", "mul", "truediv", "floordiv", "mod"})
        /\ OneSpecial
        /\ ~ZeroDivisor
        /\ ~(last.op = "truediv" /\ math_isinf(Other.value)))
    => (Returned /\ Result.sf = INF)

\* the number of characters after the decimal point of s
DigitsAfterPoint(s) ==
    IF Contains(s, ".") THEN Len(split(s, ".")[2]) ELSE 0

\* C7: SigFig(s) of a string s that float() reads as zero succeeds with
\* value 0, sf 0 and lsf minus the number of digits after the point.
C7_ZeroLiteral ==
    (last.op = "init_str" /\ ParseFloat(last.lit).exc = "none"
        /\ IsZero(ParseFloat(last.lit).v))
    => /\ Returned
       /\ IsZero(Result.value)
       /\ Result.sf = 0
       /\ Result.lsf = LsfInt(-DigitsAfterPoint(last.lit))

\* C8: a+b and a-b of two SigFigs with integer lsf raise no exception.
C8_NoError ==
    (OnSigFigs({"add", "sub"}) /\ BothLsfInt) => Returned

\* C9: set_sf on the instance an operator returned changes the sf of no
\* instance that existed before the operator was called.
C9_NoAliasing ==
    [][(last.op \in Arithmetic /\ Returned
           /\ last'.op = "set_sf" /\ last'.self = last.res)
       => \A i \in 1..last.before : heap'[i].sf = heap[i].sf]_vars

\* C10: a != b is True exactly when a == b is False.
C10_NeNegatesEq ==
    (last.op = "ne" /\ last.exc = "none"
        /\ SigFig_eq(Self, Other).exc = "none")
    => (last.flag = ~SigFig_eq(Self, Other).b)

====
